---- MODULE Spec2Model ----
(***************************************************************************)
(* A model of dashboard.py, the e-commerce discount dashboard.  The script *)
(* is re-executed top to bottom on every interaction; one action below is  *)
(* one section of the script.  Numbers are exact rationals extended with   *)
(* NaN and the two infinities (float rounding is not modelled); a frame is *)
(* column oriented, as a pandas DataFrame is.                              *)
(***************************************************************************)
EXTENDS Integers, Sequences, FiniteSets, TLC

VARIABLES
    fileExists,     \* os.path.exists(file_path)
    fileTable,      \* what pd.read_csv(file_path) parses from the file
    cache,          \* the entry st.cache_data keeps for load_data()
    reads,          \* number of times pd.read_csv has run in this process
    pc,             \* position of the script run
    df,             \* the script's df
    widgets,        \* the session's widget state (the Filter State)
    filtered_df,    \* the script's filtered_df
    metrics,        \* the four st.metric values
    profit_cat,     \* the grouped means of the "Regional" tab
    insights,       \* discounted, non_discounted, sales_boost, profit_diff
    rendered,       \* the elements this run has put on the page
    snapshot        \* observer: one (Filter State, Filtered View) seen earlier

vars == <<fileExists, fileTable, cache, reads, pc, df, widgets, filtered_df,
          metrics, profit_cat, insights, rendered, snapshot>>

-----------------------------------------------------------------------------
(* Bounds of the model *)

\* the largest number of data rows in the input file
MaxRows == 2

-----------------------------------------------------------------------------
(* Numbers: <<n, d>> with d > 0 in lowest terms is n/d;                     *)
(* <<0, 0>> is NaN, <<1, 0>> is +inf, <<-1, 0>> is -inf.                    *)

Abs(n) == IF n < 0 THEN -n ELSE n

RECURSIVE GCD(_, _)
GCD(a, b) == IF b = 0 THEN a ELSE GCD(b, a % b)

Rat(n, d) ==
    LET s == IF d < 0 THEN -1 ELSE 1
        g == GCD(Abs(n), Abs(d))
    IN  <<(s * n) \div g, (s * d) \div g>>

NaN == <<0, 0>>
Zero == <<0, 1>>
Hundred == <<100, 1>>

IsNaN(x) == x = NaN
IsFinite(x) == x[2] > 0
IsInf(x) == x[2] = 0 /\ x[1] # 0
Sign(x) == IF x[1] > 0 THEN 1 ELSE IF x[1] < 0 THEN -1 ELSE 0

Neg(a) == <<-a[1], a[2]>>

Add(a, b) ==
    IF IsNaN(a) \/ IsNaN(b) THEN NaN
    ELSE IF IsInf(a) THEN (IF IsInf(b) /\ b # a THEN NaN ELSE a)
    ELSE IF IsInf(b) THEN b
    ELSE Rat(a[1] * b[2] + b[1] * a[2], a[2] * b[2])

Sub(a, b) == Add(a, Neg(b))

Mul(a, b) ==
    IF IsNaN(a) \/ IsNaN(b) THEN NaN
    ELSE IF IsInf(a) \/ IsInf(b)
         THEN (IF Sign(a) * Sign(b) = 0 THEN NaN ELSE <<Sign(a) * Sign(b), 0>>)
    ELSE Rat(a[1] * b[1], a[2] * b[2])

\* float division: x/0 is +-inf, 0/0 is NaN, nothing raises
Div(a, b) ==
    IF IsNaN(a) \/ IsNaN(b) THEN NaN
    ELSE IF IsInf(b) THEN (IF IsInf(a) THEN NaN ELSE Zero)
    ELSE IF b[1] = 0 THEN (IF a[1] = 0 THEN NaN ELSE <<Sign(a), 0>>)
    ELSE IF IsInf(a) THEN <<Sign(a) * Sign(b), 0>>
    ELSE Rat(a[1] * b[2], a[2] * b[1])

\* comparisons with NaN are False
Le(a, b) == ~IsNaN(a) /\ ~IsNaN(b) /\ a[1] * b[2] <= b[1] * a[2]
Ge(a, b) == Le(b, a)
Gt(a, b) == ~IsNaN(a) /\ ~IsNaN(b) /\ a[1] * b[2] > b[1] * a[2]
Eq(a, b) == ~IsNaN(a) /\ ~IsNaN(b) /\ a = b

-----------------------------------------------------------------------------
(* Series reductions (pandas skips NaN in sum, mean, min and max) *)

RECURSIVE SumSeq(_)
SumSeq(xs) ==
    IF xs = <<>> THEN Zero
    ELSE IF IsNaN(Head(xs)) THEN SumSeq(Tail(xs))
    ELSE Add(Head(xs), SumSeq(Tail(xs)))

RECURSIVE Count(_)
Count(xs) ==
    IF xs = <<>> THEN 0
    ELSE (IF IsNaN(Head(xs)) THEN 0 ELSE 1) + Count(Tail(xs))

\* the value standing for a raised exception
Raised == <<0, -1>>

Sum(xs) == SumSeq(xs)

MeanRaising(xs) ==
    IF Count(xs) = 0 THEN Raised ELSE Div(SumSeq(xs), <<Count(xs), 1>>)

Mean(xs) == Div(SumSeq(xs), <<Count(xs), 1>>)

RECURSIVE MinSeq(_)
MinSeq(xs) ==
    IF xs = <<>> THEN NaN
    ELSE LET m == MinSeq(Tail(xs))
         IN  IF IsNaN(Head(xs)) THEN m
             ELSE IF IsNaN(m) \/ Le(Head(xs), m) THEN Head(xs) ELSE m

RECURSIVE MaxSeq(_)
MaxSeq(xs) ==
    IF xs = <<>> THEN NaN
    ELSE LET m == MaxSeq(Tail(xs))
         IN  IF IsNaN(Head(xs)) THEN m
             ELSE IF IsNaN(m) \/ Ge(Head(xs), m) THEN Head(xs) ELSE m

-----------------------------------------------------------------------------
(* Strings are sequences of characters, so that strip() and lower() do work *)

Whitespace == {" "}

LowerChar(c) ==
    CASE c = "A" -> "a" [] c = "C" -> "c" [] c = "D" -> "d" [] c = "E" -> "e"
      [] c = "G" -> "g" [] c = "I" -> "i" [] c = "N" -> "n" [] c = "O" -> "o"
      [] c = "P" -> "p" [] c = "Q" -> "q" [] c = "R" -> "r" [] c = "S" -> "s"
      [] c = "T" -> "t" [] c = "U" -> "u" [] c = "Y" -> "y"
      [] OTHER -> c

Lower(s) == [i \in 1..Len(s) |-> LowerChar(s[i])]

RECURSIVE LStrip(_)
LStrip(s) ==
    IF s # <<>> /\ Head(s) \in Whitespace THEN LStrip(Tail(s)) ELSE s

RECURSIVE RStrip(_)
RStrip(s) ==
    IF s # <<>> /\ s[Len(s)] \in Whitespace
    THEN RStrip(SubSeq(s, 1, Len(s) - 1)) ELSE s

Strip(s) == LStrip(RStrip(s))

\* col.strip().lower()
NormalizeName(col) == Lower(Strip(col))

\* the column names the script uses
order_date == <<"o","r","d","e","r","_","d","a","t","e">>
price == <<"p","r","i","c","e">>
quantity == <<"q","u","a","n","t","i","t","y">>
discount == <<"d","i","s","c","o","u","n","t">>
category == <<"c","a","t","e","g","o","r","y">>
region == <<"r","e","g","i","o","n">>
revenue == <<"r","e","v","e","n","u","e">>
discount_value ==
    <<"d","i","s","c","o","u","n","t","_","v","a","l","u","e">>
profit == <<"p","r","o","f","i","t">>
profit_margin == <<"p","r","o","f","i","t","_","m","a","r","g","i","n">>

-----------------------------------------------------------------------------
(* Frames: columns (names), index (row labels), data (one vector a column) *)

NoFrame == [columns |-> <<>>, index |-> <<>>, data |-> <<>>]

NRows(f) == Len(f.index)

HasCol(f, name) == \E j \in 1..Len(f.columns) : f.columns[j] = name

\* position of the first column called name
ColIndex(f, name) ==
    CHOOSE j \in 1..Len(f.columns) :
        /\ f.columns[j] = name
        /\ \A k \in 1..(j - 1) : f.columns[k] # name

\* f[name]
Col(f, name) == f.data[ColIndex(f, name)]

\* f[name] = vec : replaces the column, or appends it
SetCol(f, name, vec) ==
    IF HasCol(f, name)
    THEN [f EXCEPT !.data[ColIndex(f, name)] = vec]
    ELSE [f EXCEPT !.columns = Append(f.columns, name),
                   !.data = Append(f.data, vec)]

\* the positions at which mask is True, ascending
RECURSIVE Positions(_, _)
Positions(mask, from) ==
    IF from > Len(mask) THEN <<>>
    ELSE IF mask[from] THEN <<from>> \o Positions(mask, from + 1)
    ELSE Positions(mask, from + 1)

\* f[mask] : a new frame holding the rows whose mask is True
Take(f, mask) ==
    LET pos == Positions(mask, 1)
    IN  [columns |-> f.columns,
         index   |-> [k \in 1..Len(pos) |-> f.index[pos[k]]],
         data    |-> [j \in 1..Len(f.data) |->
                        [k \in 1..Len(pos) |-> f.data[j][pos[k]]]]]

\* the distinct values of a vector (Series.unique(), NaN included)
Unique(vec) == {vec[i] : i \in 1..Len(vec)}

-----------------------------------------------------------------------------
(* The input file *)

NA == "nan"                       \* a missing category or region
ValidDates == {"2024-01-05"}      \* the texts pd.to_datetime can parse

StrCell(s) == [kind |-> "str", v |-> s]
NanCell == [kind |-> "nan", v |-> ""]
NaT == [kind |-> "NaT", v |-> ""]
Timestamp(s) == [kind |-> "ts", v |-> s]

\* pd.to_datetime(value, errors="coerce")
ToDatetime(c) ==
    IF c.kind = "ts" THEN c
    ELSE IF c.kind = "str" /\ c.v \in ValidDates THEN Timestamp(c.v)
    ELSE NaT

IsParsed(c) == c.kind \in {"ts", "NaT"}

Row(p, q, d, c, r, o) ==
    [price |-> p, quantity |-> q, discount |-> d, category |-> c,
     region |-> r, order_date |-> o]

\* the records a file is made of: the two of the specification's example,
\* one of revenue 0 without category, region and date, one without
\* discount, one of negative discount without price
RowUniverse ==
    { Row(<<100, 1>>, <<2, 1>>, <<1, 10>>,  "A", "X", StrCell("2024-01-05")),
      Row(<<50, 1>>,  <<1, 1>>, Zero,       "B", "Y", StrCell("not a date")),
      Row(<<100, 1>>, Zero,     Zero,       NA,  NA,  NanCell),
      Row(<<50, 1>>,  <<2, 1>>, NaN,        "A", "X", StrCell("not a date")),
      Row(NaN,        <<1, 1>>, <<-1, 10>>, "B", "Y", StrCell("2024-01-05")) }

\* the complete records, of which the files of the second specification
\* are made
SmallUniverse ==
    { r \in RowUniverse : ~IsNaN(r.price) /\ ~IsNaN(r.discount) /\ r.category # NA }

\* the header lines a file can have: <<header text, field>> per column
PlainHeader ==
    << <<price, "price">>, <<quantity, "quantity">>, <<discount, "discount">>,
       <<category, "category">>, <<region, "region">> >>

DatedHeader == Append(PlainHeader, <<order_date, "order_date">>)

MessyHeader ==
    << << <<" ","P","r","i","c","e">>, "price">>,
       << <<"Q","u","a","n","t","i","t","y"," ">>, "quantity">>,
       << <<"D","I","S","C","O","U","N","T">>, "discount">>,
       << <<"C","a","t","e","g","o","r","y">>, "category">>,
       << <<" ","R","e","g","i","o","n"," ">>, "region">>,
       << <<" ","O","r","d","e","r","_","D","a","t","e"," ">>, "order_date">> >>

NoPriceHeader ==
    << << <<"c","o","s","t">>, "price">>, <<quantity, "quantity">>,
       <<discount, "discount">>, <<category, "category">>,
       <<region, "region">> >>

Headers == {PlainHeader, DatedHeader, MessyHeader, NoPriceHeader}

SeqsUpTo(S, n) == UNION {[1..k -> S] : k \in 0..n}

\* pd.read_csv of a file with header line h and records rows
ParsedFile(h, rows) ==
    [columns |-> [j \in 1..Len(h) |-> h[j][1]],
     index   |-> [i \in 1..Len(rows) |-> i - 1],
     data    |-> [j \in 1..Len(h) |-> [i \in 1..Len(rows) |-> rows[i][h[j][2]]]]]

Files == {ParsedFile(h, rows) : h \in Headers, rows \in SeqsUpTo(RowUniverse, MaxRows)}

SmallFiles ==
    {ParsedFile(DatedHeader, rows) : rows \in SeqsUpTo(SmallUniverse, MaxRows)}

-----------------------------------------------------------------------------
(* The state of a run *)

NoWidgets == [set |-> FALSE, categories |-> {}, regions |-> {},
              discount_range |-> <<NaN, NaN>>]

NoMetrics == [set |-> FALSE, avg_discount |-> NaN, total_revenue |-> NaN,
              total_profit |-> NaN, avg_margin |-> NaN]

NoInsights == [set |-> FALSE, discounted |-> NoFrame, non_discounted |-> NoFrame,
               computed |-> FALSE, sales_boost |-> NaN, profit_diff |-> NaN,
               notices |-> {}]

NoSnapshot == [set |-> FALSE, between |-> FALSE, state |-> NoWidgets,
               view |-> NoFrame]

Idle == {"done", "halted", "crashed"}

InitWith(files) ==
    /\ fileExists \in BOOLEAN
    /\ fileTable \in files
    /\ cache = NoFrame
    /\ reads = 0
    /\ pc = "start"
    /\ df = NoFrame
    /\ widgets = NoWidgets
    /\ filtered_df = NoFrame
    /\ metrics = NoMetrics
    /\ profit_cat = {}
    /\ insights = NoInsights
    /\ rendered = {}
    /\ snapshot = NoSnapshot

Init == InitWith(Files)

InitSmall == InitWith(SmallFiles) /\ fileExists

-----------------------------------------------------------------------------
(* Lines 26-37: the existence check and the cached loader *)

\* where a run goes when the file is absent: st.error(...) ; st.stop()
ContinueOnMissing == "load"

StopOnMissing == "halted"

CheckFile ==
    /\ pc = "start"
    /\ IF ~fileExists
       THEN /\ rendered' = {"title", "error"}
            /\ pc' = StopOnMissing
       ELSE /\ rendered' = {"title"}
            /\ pc' = "load"
    /\ UNCHANGED <<fileExists, fileTable, cache, reads, df, widgets,
                   filtered_df, metrics, profit_cat, insights, snapshot>>

\* @st.cache_data: an entry for load_data() is kept once it has returned
CacheHitNever(c) == FALSE

CacheHit(c) == c # NoFrame

\* df = load_data(): the cached table (a fresh copy of it), else read_csv
LoadData ==
    /\ pc = "load"
    /\ IF CacheHit(cache)
       THEN /\ df' = cache
            /\ pc' = "prepare"
            /\ UNCHANGED <<cache, reads>>
       ELSE IF fileExists
       THEN /\ reads' = reads + 1
            /\ cache' = fileTable
            /\ df' = fileTable
            /\ pc' = "prepare"
       ELSE /\ pc' = "crashed"          \* FileNotFoundError
            /\ UNCHANGED <<cache, reads, df>>
    /\ UNCHANGED <<fileExists, fileTable, widgets, filtered_df, metrics,
                   profit_cat, insights, rendered, snapshot>>

-----------------------------------------------------------------------------
(* Lines 42-52: cleaning and the derived columns *)

\* lines 42-43
ParseDates(f) ==
    IF HasCol(f, order_date)
    THEN SetCol(f, order_date,
                [i \in 1..NRows(f) |-> ToDatetime(Col(f, order_date)[i])])
    ELSE f

\* line 46
NormalizeColumns(f) ==
    [f EXCEPT !.columns = [j \in 1..Len(f.columns) |-> NormalizeName(f.columns[j])]]

\* elementwise arithmetic of two columns
Times(xs, ys) == [i \in 1..Len(xs) |-> Mul(xs[i], ys[i])]
Minus(xs, ys) == [i \in 1..Len(xs) |-> Sub(xs[i], ys[i])]
Over(xs, ys) == [i \in 1..Len(xs) |-> Div(xs[i], ys[i])]

\* lines 49-52, mutated: the discount fraction is subtracted, not its value
FeatureEngineeringFraction(f) ==
    LET f1 == SetCol(f, revenue, Times(Col(f, price), Col(f, quantity)))
        f2 == SetCol(f1, discount_value, Times(Col(f1, revenue), Col(f1, discount)))
        f3 == SetCol(f2, profit, Minus(Col(f2, revenue), Col(f2, discount)))
    IN  SetCol(f3, profit_margin, Over(Col(f3, profit), Col(f3, revenue)))

\* lines 49-52
FeatureEngineering(f) ==
    LET f1 == SetCol(f, revenue, Times(Col(f, price), Col(f, quantity)))
        f2 == SetCol(f1, discount_value, Times(Col(f1, revenue), Col(f1, discount)))
        f3 == SetCol(f2, profit, Minus(Col(f2, revenue), Col(f2, discount_value)))
    IN  SetCol(f3, profit_margin, Over(Col(f3, profit), Col(f3, revenue)))

Prepare ==
    /\ pc = "prepare"
    /\ LET cleaned == NormalizeColumns(ParseDates(df))
       IN  IF \A c \in {price, quantity, discount} : HasCol(cleaned, c)
           THEN /\ df' = FeatureEngineering(cleaned)
                /\ pc' = "sidebar"
           ELSE /\ df' = cleaned            \* KeyError
                /\ pc' = "crashed"
    /\ UNCHANGED <<fileExists, fileTable, cache, reads, widgets, filtered_df,
                   metrics, profit_cat, insights, rendered, snapshot>>

-----------------------------------------------------------------------------
(* Lines 57-83: the three filter controls and the Filtered View *)

\* the values the controls return on a session's first run
Defaults(f) ==
    [set |-> TRUE,
     categories |-> Unique(Col(f, category)),
     regions |-> Unique(Col(f, region)),
     discount_range |-> <<MinSeq(Col(f, discount)), MaxSeq(Col(f, discount))>>]

\* Series.isin(values): a missing value matches a missing value
Isin(v, values) == v \in values

\* lines 79-82, mutated: the upper end of the range is exclusive
MaskExclusive(f, w) ==
    [i \in 1..NRows(f) |->
        /\ Isin(Col(f, category)[i], w.categories)
        /\ Isin(Col(f, region)[i], w.regions)
        /\ Ge(Col(f, discount)[i], w.discount_range[1])
        /\ Le(Col(f, discount)[i], w.discount_range[2])
        /\ Col(f, discount)[i] # w.discount_range[2]]

\* lines 79-82
Mask(f, w) ==
    [i \in 1..NRows(f) |->
        /\ Isin(Col(f, category)[i], w.categories)
        /\ Isin(Col(f, region)[i], w.regions)
        /\ Ge(Col(f, discount)[i], w.discount_range[1])
        /\ Le(Col(f, discount)[i], w.discount_range[2])]

\* what df is after filtered_df = df[...], mutated: df is narrowed in place
SourceNarrowed(f, view) == view

\* what df is after filtered_df = df[...]: indexing builds a new frame
SourceAfterFilter(f, view) == f

\* the observer notes a run under a Filter State other than the one it keeps
Observe(s, w) ==
    IF s.set /\ w # s.state THEN [s EXCEPT !.between = TRUE] ELSE s

Sidebar ==
    /\ pc = "sidebar"
    /\ LET w == IF widgets.set THEN widgets ELSE Defaults(df)
           view == Take(df, Mask(df, w))
       IN  \/ /\ widgets' = w
              /\ filtered_df' = view
              /\ df' = SourceAfterFilter(df, view)
              /\ rendered' = rendered \cup {"filters"}
              /\ snapshot' = Observe(snapshot, w)
              /\ pc' = "metrics"
           \/ \* a slider whose bounds are NaN (no discount value at all) is
              \* not defined by the widget's contract: it may also raise
              /\ IsNaN(MinSeq(Col(df, discount)))
              /\ pc' = "crashed"
              /\ UNCHANGED <<widgets, filtered_df, df, rendered, snapshot>>
    /\ UNCHANGED <<fileExists, fileTable, cache, reads, metrics, profit_cat,
                   insights>>

-----------------------------------------------------------------------------
(* Lines 90-94: the four headline metrics *)

KPI(view) ==
    [set |-> TRUE,
     avg_discount  |-> Mean(Col(view, discount)),
     total_revenue |-> Sum(Col(view, revenue)),
     total_profit  |-> Sum(Col(view, profit)),
     avg_margin    |-> Mean(Col(view, profit_margin))]

Metrics ==
    /\ pc = "metrics"
    /\ LET m == KPI(filtered_df)
       IN  IF Raised \in {m.avg_discount, m.total_revenue, m.total_profit, m.avg_margin}
           THEN /\ pc' = "crashed"
                /\ UNCHANGED <<metrics, rendered>>
           ELSE /\ metrics' = m
                /\ rendered' = rendered \cup {"metrics"}
                /\ pc' = "tabs"
    /\ UNCHANGED <<fileExists, fileTable, cache, reads, df, widgets,
                   filtered_df, insights, profit_cat, snapshot>>

-----------------------------------------------------------------------------
(* Lines 99-144: the four tabs *)

\* lines 127-132: groupby([category, discount > 0])["profit"].mean(), the
\* rows of a missing category left out, then the "Discounted" label
ProfitCat(view) ==
    LET keys == {<<Col(view, category)[i], Gt(Col(view, discount)[i], Zero)>> :
                    i \in {k \in 1..NRows(view) : Col(view, category)[k] # NA}}
        group(key) == [i \in 1..NRows(view) |->
                         /\ Col(view, category)[i] = key[1]
                         /\ Gt(Col(view, discount)[i], Zero) = key[2]]
    IN  {[category |-> key[1], discount |-> key[2],
          profit |-> Mean(Col(Take(view, group(key)), profit)),
          Discounted |-> IF key[2] THEN "Discounted" ELSE "Non-Discounted"] :
            key \in keys}

Charts == {"preview", "histogram", "scatter_revenue", "scatter_profit",
           "box", "bar", "heatmap"}

Tabs ==
    /\ pc = "tabs"
    /\ LET pcat == ProfitCat(filtered_df)
       IN  IF \E g \in pcat : g.profit = Raised
           THEN /\ pc' = "crashed"
                /\ UNCHANGED <<profit_cat, rendered>>
           ELSE /\ profit_cat' = pcat
                /\ rendered' = rendered \cup Charts
                /\ pc' = "insights"
    /\ UNCHANGED <<fileExists, fileTable, cache, reads, df, widgets,
                   filtered_df, metrics, insights, snapshot>>

-----------------------------------------------------------------------------
(* Lines 149-165: the insights *)

\* line 151, mutated: rows without a discount count as discounted
DiscountedOrEqual(view) ==
    Take(view, [i \in 1..NRows(view) |-> Ge(Col(view, discount)[i], Zero)])

\* line 151
Discounted(view) ==
    Take(view, [i \in 1..NRows(view) |-> Gt(Col(view, discount)[i], Zero)])

\* line 152
NonDiscounted(view) ==
    Take(view, [i \in 1..NRows(view) |-> Eq(Col(view, discount)[i], Zero)])

\* line 154, mutated: the discounted subset is the one tested
CanCompareDiscounted(d, n) == NRows(d) > 0

\* line 154
CanCompare(d, n) == NRows(n) > 0

\* line 155
SalesBoost(d, n) ==
    Mul(Div(Sub(Mean(Col(d, quantity)), Mean(Col(n, quantity))),
            Mean(Col(n, quantity))),
        Hundred)

\* line 156
ProfitDiff(d, n) ==
    Mul(Sub(Mean(Col(d, profit_margin)), Mean(Col(n, profit_margin))), Hundred)

Closing == {"info_seasonal", "info_electronics", "balloons"}

Insights ==
    /\ pc = "insights"
    /\ LET d == Discounted(filtered_df)
           n == NonDiscounted(filtered_df)
       IN  IF CanCompare(d, n)
           THEN IF Raised \in {Mean(Col(d, quantity)), Mean(Col(n, quantity)),
                               Mean(Col(d, profit_margin)), Mean(Col(n, profit_margin))}
                THEN /\ pc' = "crashed"
                     /\ UNCHANGED insights
                ELSE /\ insights' =
                          [set |-> TRUE, discounted |-> d, non_discounted |-> n,
                           computed |-> TRUE,
                           sales_boost |-> SalesBoost(d, n),
                           profit_diff |-> ProfitDiff(d, n),
                           notices |-> {"success", "warning"} \cup Closing]
                     /\ pc' = "done"
           ELSE /\ insights' =
                     [set |-> TRUE, discounted |-> d, non_discounted |-> n,
                      computed |-> FALSE, sales_boost |-> NaN, profit_diff |-> NaN,
                      notices |-> {"info_cannot_compare"} \cup Closing]
                /\ pc' = "done"
    /\ rendered' = IF pc' = "done" THEN rendered \cup {"insights"} ELSE rendered
    /\ UNCHANGED <<fileExists, fileTable, cache, reads, df, widgets,
                   filtered_df, metrics, profit_cat, snapshot>>

-----------------------------------------------------------------------------
(* The user, between two runs, and the file system *)

\* the Filter States one interaction leads to: one control is put in
\* another of its positions (or none is: the page is reloaded)
FilterStates(f, w) ==
    LET ds == {x \in Unique(Col(f, discount)) : IsFinite(x)}
    IN  {[w EXCEPT !.categories = C] : C \in SUBSET Unique(Col(f, category))}
        \cup {[w EXCEPT !.regions = R] : R \in SUBSET Unique(Col(f, region))}
        \cup {[w EXCEPT !.discount_range = r] :
                 r \in {<<lo, hi>> \in ds \X ds : Le(lo, hi)}}
        \cup {w}

\* a control is changed, or the page is reloaded: the script runs again
Interact ==
    /\ pc \in Idle
    /\ IF pc = "done"
       THEN widgets' \in FilterStates(df, widgets)
       ELSE widgets' = widgets
    /\ pc' = "start"
    /\ df' = NoFrame
    /\ filtered_df' = NoFrame
    /\ metrics' = NoMetrics
    /\ profit_cat' = {}
    /\ insights' = NoInsights
    /\ rendered' = {}
    /\ UNCHANGED <<fileExists, fileTable, cache, reads, snapshot>>

\* the file system is not the script's: the file can go at any moment
RemoveFile ==
    /\ fileExists
    /\ fileExists' = FALSE
    /\ UNCHANGED <<fileTable, cache, reads, pc, df, widgets, filtered_df,
                   metrics, profit_cat, insights, rendered, snapshot>>

RestoreFile ==
    /\ ~fileExists
    /\ fileExists' = TRUE
    /\ UNCHANGED <<fileTable, cache, reads, pc, df, widgets, filtered_df,
                   metrics, profit_cat, insights, rendered, snapshot>>

\* the observer keeps the Filter State and the Filtered View of one run
TakeSnapshot ==
    /\ pc = "done"
    /\ ~snapshot.set
    /\ snapshot' = [set |-> TRUE, between |-> FALSE, state |-> widgets,
                    view |-> filtered_df]
    /\ UNCHANGED <<fileExists, fileTable, cache, reads, pc, df, widgets,
                   filtered_df, metrics, profit_cat, insights, rendered>>

Next ==
    \/ CheckFile
    \/ LoadData
    \/ Prepare
    \/ Sidebar
    \/ Metrics
    \/ Tabs
    \/ Insights
    \/ Interact
    \/ RemoveFile
    \/ RestoreFile

Spec == Init /\ [][Next]_vars

\* the runs of a session whose file stays in place, and the observer
NextObserved ==
    \/ CheckFile
    \/ LoadData
    \/ Prepare
    \/ Sidebar
    \/ Metrics
    \/ Tabs
    \/ Insights
    \/ Interact
    \/ TakeSnapshot

SpecObserved == InitSmall /\ [][NextObserved]_vars

-----------------------------------------------------------------------------
(* Vocabulary of the properties.  The arithmetic relations below are stated *)
(* on numerators and denominators, not with the operators the model uses.   *)

\* df holds the derived columns
Loaded == pc \in {"sidebar", "metrics", "tabs", "insights", "done"}

\* this run has computed its Filtered View
Viewed == pc \in {"metrics", "tabs", "insights", "done"}

Missing(x) == x[1] = 0 /\ x[2] = 0
Finite(x) == x[2] > 0

\* r is a * b
ProductOf(r, a, b) ==
    IF Finite(a) /\ Finite(b)
    THEN Finite(r) /\ r[1] * a[2] * b[2] = a[1] * b[1] * r[2]
    ELSE Missing(r)

\* r is a - b
DifferenceOf(r, a, b) ==
    IF Finite(a) /\ Finite(b)
    THEN Finite(r) /\ r[1] * a[2] * b[2] = (a[1] * b[2] - b[1] * a[2]) * r[2]
    ELSE Missing(r)

\* r is a / b in floating point, for a and b finite or missing
QuotientOf(r, a, b) ==
    IF Finite(a) /\ Finite(b) /\ b[1] # 0
    THEN Finite(r) /\ r[1] * a[2] * b[1] = a[1] * b[2] * r[2]
    ELSE IF Finite(a) /\ Finite(b) /\ a[1] # 0
    THEN r[2] = 0 /\ r[1] # 0 /\ (r[1] > 0 <=> a[1] > 0)
    ELSE Missing(r)

\* the sum of the present values of vec at the positions S
RECURSIVE SumOver(_, _)
SumOver(vec, S) ==
    IF S = {} THEN <<0, 1>>
    ELSE LET k == CHOOSE x \in S : TRUE
             rest == SumOver(vec, S \ {k})
         IN  IF Missing(vec[k]) THEN rest
             ELSE <<vec[k][1] * rest[2] + rest[1] * vec[k][2], vec[k][2] * rest[2]>>

\* m is the mean of the present values of vec at the positions S
MeanOf(m, vec, S) ==
    LET present == {k \in S : ~Missing(vec[k])}
        total == SumOver(vec, present)
    IN  IF present = {} THEN Missing(m)
        ELSE Finite(m) /\ m[1] * total[2] * Cardinality(present) = total[1] * m[2]

\* the position in df of the row labelled l
RowOf(l) == l + 1

-----------------------------------------------------------------------------
(* C1 *)

DerivedRow(i) ==
    LET p == Col(df, price)[i]
        q == Col(df, quantity)[i]
        d == Col(df, discount)[i]
        r == Col(df, revenue)[i]
        v == Col(df, discount_value)[i]
        g == Col(df, profit)[i]
        m == Col(df, profit_margin)[i]
    IN  /\ ProductOf(r, p, q)
        /\ ProductOf(v, r, d)
        /\ DifferenceOf(g, r, v)
        /\ QuotientOf(m, g, r)

ExampleLoaded ==
    /\ Col(df, price) = << <<100, 1>>, <<50, 1>> >>
    /\ Col(df, quantity) = << <<2, 1>>, <<1, 1>> >>
    /\ Col(df, discount) = << <<1, 10>>, <<0, 1>> >>

ExampleDerived ==
    /\ Col(df, revenue) = << <<200, 1>>, <<50, 1>> >>
    /\ Col(df, profit) = << <<180, 1>>, <<50, 1>> >>
    /\ Col(df, profit_margin) = << <<9, 10>>, <<1, 1>> >>

\* C1 as stated: after the derivation every row has revenue = price *
\* quantity, discount_value = revenue * discount, profit = revenue -
\* discount_value and profit_margin = profit / revenue, and profit_margin
\* is non-finite exactly when revenue = 0; the two example rows give
\* revenue [200, 50], profit [180, 50], profit_margin [0.9, 1.0].
C1_AsStated ==
    Loaded =>
        /\ \A i \in 1..NRows(df) :
              /\ DerivedRow(i)
              /\ ~Finite(Col(df, profit_margin)[i]) <=> Col(df, revenue)[i] = <<0, 1>>
        /\ ExampleLoaded => ExampleDerived

\* C1 amended: the same four equations hold of every row, and
\* profit_margin is non-finite exactly when revenue = 0 or when the price,
\* the quantity or the discount of the row is missing; the example holds.
C1_Derivation ==
    Loaded =>
        /\ \A i \in 1..NRows(df) :
              /\ DerivedRow(i)
              /\ ~Finite(Col(df, profit_margin)[i]) <=>
                    \/ Col(df, revenue)[i] = <<0, 1>>
                    \/ Missing(Col(df, price)[i])
                    \/ Missing(Col(df, quantity)[i])
                    \/ Missing(Col(df, discount)[i])
        /\ ExampleLoaded => ExampleDerived

\* a loaded table with a row of revenue 0 (margin non-finite) next to a row
\* of margin 0.9
C1_Witness ==
    /\ Loaded
    /\ \E i \in 1..NRows(df) :
          Col(df, revenue)[i] = <<0, 1>> /\ Missing(Col(df, profit_margin)[i])
    /\ \E j \in 1..NRows(df) : Col(df, profit_margin)[j] = <<9, 10>>

-----------------------------------------------------------------------------
(* C2 *)

InRange(d, lo, hi) ==
    /\ ~Missing(d) /\ ~Missing(lo) /\ ~Missing(hi)
    /\ lo[1] * d[2] <= d[1] * lo[2]
    /\ d[1] * hi[2] <= hi[1] * d[2]

Selected(i) ==
    /\ Col(df, category)[i] \in widgets.categories
    /\ Col(df, region)[i] \in widgets.regions
    /\ InRange(Col(df, discount)[i], widgets.discount_range[1],
               widgets.discount_range[2])

\* C2: the Filtered View is exactly the rows of the full dataset whose
\* category is selected, whose region is selected and whose discount is in
\* [lo, hi], both ends included; it is a subset of the dataset, its rows
\* are unchanged and keep their relative order.
C2_FilteredView ==
    Viewed =>
        /\ filtered_df.columns = df.columns
        /\ {filtered_df.index[k] : k \in 1..NRows(filtered_df)}
              = {df.index[i] : i \in {x \in 1..NRows(df) : Selected(x)}}
        /\ \A k \in 1..(NRows(filtered_df) - 1) :
              filtered_df.index[k] < filtered_df.index[k + 1]
        /\ \A k \in 1..NRows(filtered_df) : \A j \in 1..Len(df.columns) :
              filtered_df.data[j][k] = df.data[j][RowOf(filtered_df.index[k])]

\* a proper, non-empty view that holds a row whose discount is the upper
\* end of a range with distinct ends
C2_Witness ==
    /\ Viewed
    /\ 0 < NRows(filtered_df) /\ NRows(filtered_df) < NRows(df)
    /\ widgets.discount_range[1] # widgets.discount_range[2]
    /\ \E k \in 1..NRows(filtered_df) :
          Col(filtered_df, discount)[k] = widgets.discount_range[2]

-----------------------------------------------------------------------------
(* C3 *)

\* C3, for the datasets whose default range is a pair of numbers: with the
\* three controls at their defaults the Filtered View is the full dataset,
\* no row dropped, rows of a missing category, region or discount included.
C3_DefaultsKeepAll ==
    (Viewed /\ widgets = Defaults(df) /\ Finite(widgets.discount_range[1]))
        => filtered_df = df

-----------------------------------------------------------------------------
(* C4 *)

\* C4: no step changes the cached table once it is loaded; computing the
\* Filtered View changes neither it nor df; and a run under the Filter
\* State the observer kept from an earlier run computes the Filtered View
\* of that earlier run.
C4_Reapply ==
    [][ /\ cache # NoFrame => cache' = cache
        /\ (pc = "sidebar" /\ pc' = "metrics") =>
              /\ df' = df
              /\ (snapshot.set /\ widgets' = snapshot.state)
                    => filtered_df' = snapshot.view ]_vars

\* the kept Filter State is applied again, after a run under another one,
\* and selects some rows but not all
C4_Witness ==
    /\ pc = "metrics"
    /\ snapshot.set /\ snapshot.between
    /\ widgets = snapshot.state
    /\ 0 < NRows(filtered_df) /\ NRows(filtered_df) < NRows(df)

-----------------------------------------------------------------------------
(* C5 *)

ViewComputed == filtered_df.columns # <<>>

NanOrZero(x) == Missing(x) \/ x = <<0, 1>>

\* C5: when the Filtered View has no row, the run does not end in an error:
\* the metrics panel reports revenue sum 0, profit sum 0 and NaN or zero
\* for the two means, and the charts and the insights are rendered.
C5_EmptyView ==
    (ViewComputed /\ NRows(filtered_df) = 0) =>
        /\ pc # "crashed"
        /\ pc \in {"tabs", "insights", "done"} =>
              /\ "metrics" \in rendered
              /\ metrics.total_revenue = <<0, 1>>
              /\ metrics.total_profit = <<0, 1>>
              /\ NanOrZero(metrics.avg_discount)
              /\ NanOrZero(metrics.avg_margin)
        /\ pc \in {"insights", "done"} => Charts \subseteq rendered /\ profit_cat = {}
        /\ pc = "done" => "insights" \in rendered

\* a finished run over a dataset with rows, every category deselected
C5_Witness ==
    /\ pc = "done"
    /\ NRows(df) > 0
    /\ widgets.categories = {}
    /\ NRows(filtered_df) = 0
    /\ metrics.set

-----------------------------------------------------------------------------
(* C6 *)

\* C6: a run that finds the file absent shows the error and halts, having
\* read nothing, derived nothing and rendered no control, metric or chart;
\* halted is not crashed, and stays so until the next run.
C6_MissingFile ==
    /\ [](pc = "halted" =>
            /\ "error" \in rendered
            /\ rendered \cap ({"filters", "metrics", "insights"} \cup Charts) = {}
            /\ df = NoFrame /\ filtered_df = NoFrame
            /\ ~metrics.set /\ ~insights.set)
    /\ [][(pc = "start" /\ ~fileExists /\ pc' # pc) =>
            /\ pc' = "halted"
            /\ "error" \in rendered'
            /\ reads' = reads /\ cache' = cache /\ df' = NoFrame]_vars

\* a rerun halts on the absent file although the table is in the cache
C6_Witness == pc = "halted" /\ cache # NoFrame /\ ~fileExists

-----------------------------------------------------------------------------
(* C7 *)

\* C7: the file is read at most once in the process; the table every run
\* works on is the cached one, which is the table that one read returned.
C7_ReadOnce ==
    /\ reads <= 1
    /\ cache # NoFrame <=> reads = 1
    /\ pc = "prepare" => (reads = 1 /\ df = cache /\ cache = fileTable)

\* a finished rerun (a control has been changed) after one read
C7_Witness ==
    /\ pc = "done"
    /\ widgets # Defaults(df)
    /\ reads = 1

-----------------------------------------------------------------------------
(* C8 *)

\* C8: when a header of the file normalizes (strip, lowercase) to
\* "order_date", the column is parsed: after the preparation every value
\* of it is a timestamp or the missing marker.
C8_DateColumnParsed ==
    (Loaded /\ \E j \in 1..Len(cache.columns) :
                   NormalizeName(cache.columns[j]) = order_date)
        => /\ HasCol(df, order_date)
           /\ \A i \in 1..NRows(df) : IsParsed(Col(df, order_date)[i])

-----------------------------------------------------------------------------
(* C9 *)

ViewRows == 1..NRows(filtered_df)
ZeroRows == {k \in ViewRows : Col(filtered_df, discount)[k] = <<0, 1>>}
PositiveRows == {k \in ViewRows : Col(filtered_df, discount)[k][1] > 0}

\* b is 100 * (md - mn) / mn
BoostOf(b, md, mn) ==
    IF Missing(md) \/ Missing(mn) THEN Missing(b)
    ELSE IF mn[1] # 0
    THEN Finite(b) /\ b[1] * md[2] * mn[1] = 100 * (md[1] * mn[2] - mn[1] * md[2]) * b[2]
    ELSE IF md[1] = 0 THEN Missing(b)
    ELSE b[2] = 0 /\ b[1] # 0 /\ (b[1] > 0 <=> md[1] > 0)

\* p is 100 * (md - mn)
DiffOf(p, md, mn) ==
    IF Missing(md) \/ Missing(mn) THEN Missing(p)
    ELSE Finite(p) /\ p[1] * md[2] * mn[2] = 100 * (md[1] * mn[2] - mn[1] * md[2]) * p[2]

\* C9: at the end of a run, if no row of the Filtered View has discount 0
\* only the "cannot compare" notice is there and nothing was computed;
\* otherwise the notice is not there and sales_boost and profit_diff are
\* the two formulas over the means of the two subsets.
C9_Insights ==
    pc = "done" =>
        IF ZeroRows = {}
        THEN /\ "info_cannot_compare" \in insights.notices
             /\ insights.notices \cap {"success", "warning"} = {}
             /\ ~insights.computed
        ELSE /\ "info_cannot_compare" \notin insights.notices
             /\ {"success", "warning"} \subseteq insights.notices
             /\ insights.computed
             /\ \E md, mn \in {Mean(Col(insights.discounted, quantity)),
                              Mean(Col(insights.non_discounted, quantity))} :
                   /\ MeanOf(md, Col(filtered_df, quantity), PositiveRows)
                   /\ MeanOf(mn, Col(filtered_df, quantity), ZeroRows)
                   /\ BoostOf(insights.sales_boost, md, mn)
             /\ \E md, mn \in {Mean(Col(insights.discounted, profit_margin)),
                              Mean(Col(insights.non_discounted, profit_margin))} :
                   /\ MeanOf(md, Col(filtered_df, profit_margin), PositiveRows)
                   /\ MeanOf(mn, Col(filtered_df, profit_margin), ZeroRows)
                   /\ DiffOf(insights.profit_diff, md, mn)

\* both subsets have rows and the boost is a number other than 0
C9_Witness ==
    /\ pc = "done"
    /\ insights.computed
    /\ PositiveRows # {} /\ ZeroRows # {}
    /\ Finite(insights.sales_boost) /\ insights.sales_boost[1] # 0
    /\ Finite(insights.profit_diff) /\ insights.profit_diff[1] # 0

-----------------------------------------------------------------------------
(* C10 *)

Labels(f) == {f.index[k] : k \in 1..NRows(f)}

DiscountAt(l) == Col(df, discount)[RowOf(l)]

\* C10 as stated: the discounted and the non-discounted subset partition
\* the Filtered View: every row of the view is in exactly one of them.
C10_AsStated ==
    pc = "done" =>
        /\ Labels(insights.discounted) \cap Labels(insights.non_discounted) = {}
        /\ Labels(insights.discounted) \cup Labels(insights.non_discounted)
              = Labels(filtered_df)

\* C10 amended: the two subsets are disjoint parts of the Filtered View; a
\* row of the view is in exactly one of them when its discount is >= 0 and
\* in neither when its discount is negative.
C10_Partition ==
    pc = "done" =>
        /\ Labels(insights.discounted) \cap Labels(insights.non_discounted) = {}
        /\ Labels(insights.discounted) \cup Labels(insights.non_discounted)
              \subseteq Labels(filtered_df)
        /\ \A l \in Labels(filtered_df) :
              IF DiscountAt(l)[1] >= 0
              THEN l \in Labels(insights.discounted) \cup Labels(insights.non_discounted)
              ELSE /\ l \notin Labels(insights.discounted)
                   /\ l \notin Labels(insights.non_discounted)

\* a view with a row of negative discount, in neither subset, and a row in
\* one of them
C10_Witness ==
    /\ pc = "done"
    /\ \E l \in Labels(filtered_df) : DiscountAt(l)[1] < 0
    /\ Labels(insights.discounted) \cup Labels(insights.non_discounted) # {}

====
